---- MODULE Spec2Model ----
(***************************************************************************)
(* Model of skipper's stepselection package (the JSON build-report         *)
(* version): NewDependencyGraph, walkUpStepTree, CmdTree.Name,             *)
(* absoluteNodePath, fileDeps and StepDependsOnFiles; and of its cmd       *)
(* package: rootCmd.Run, the build-ID file, childSkipperArgs and           *)
(* stepSkipper.shouldRun.                                                  *)
(*                                                                         *)
(* A path is a record [abs, segs]: abs says whether the string starts with *)
(* "/", segs are the "/"-separated elements.  A command token and a step   *)
(* name are sequences of one-character strings.                            *)
(***************************************************************************)
EXTENDS Integers, Sequences, FiniteSets, TLC

VARIABLES
    phase,        \* "scanning" | "built" | "failed": where NewDependencyGraph is
    steps,        \* g.steps: step name -> readFiles (a set of paths)
    fileWriters,  \* g.fileWriters: path -> sequence of step names
    buildErr,     \* the error NewDependencyGraph returns ("nil" when none)
    trace,        \* history: the set of records scanned so far
    nrec,         \* history: how many records were scanned
    walk,         \* a walkUpStepTree call: its argument, loop index and the callback's arguments so far
    query,        \* the last StepDependsOnFiles call: cmdTree and the caller's slice before the call
    changedAfter, \* the caller's changedFiles slice after that call
    res,          \* what that call returned: depends, reason, err
    proc,         \* the StepDependsOnFiles calls in progress, one per caller: arguments, call stack, result,
                  \* and (history) how often the call has ranged over each step's readFiles in fileDeps
    stepChecked,  \* lookupState.stepChecked of each lookupState in use
    cmd,          \* one skipper process: its command line, where rootCmd.Run is, what it ran,
                  \* and how many skipper processes are above it
    idFile,       \* the content of the build-ID file ~/yourbase.txt
    child,        \* a childSkipperArgs call: its arguments and its result
    naming        \* a CmdTree.Name call: its receiver and its result

vars == <<phase, steps, fileWriters, buildErr, trace, nrec, walk, query, changedAfter, res,
          proc, stepChecked, cmd, idFile, child, naming>>

graphVars == <<phase, steps, fileWriters, buildErr, trace, nrec>>
queryVars == <<query, changedAfter, res>>
stepVars == <<proc, stepChecked>>
cmdVars == <<cmd, idFile>>
funcVars == <<child, naming>>

-----------------------------------------------------------------------------
(* Bounds *)

MaxRecords == 2      \* records scanned by NewDependencyGraph under SpecBuild
MaxDepth == 2        \* tokens in a record's ancestry under Spec and SpecBuild
MaxQueryRecords == 1 \* records scanned before the query under Spec
MaxChanged == 1      \* entries of changedFiles under Spec
MaxDepRecords == 4   \* records scanned under SpecDeps
MaxDepChanged == 1   \* entries of changedFiles under SpecDeps
MaxWalkDepth == 3    \* tokens in the ancestry walked under SpecWalk

-----------------------------------------------------------------------------
(* Paths *)

Path(a, s) == [abs |-> a, segs |-> s]

DevNull == Path(TRUE, <<"dev", "null">>)

\* var ignoreFiles = map[string]bool{"/dev/null": true}
ignoreFiles == {DevNull}

\* The working directory of the skipper process, /w.
Cwd == Path(TRUE, <<"w">>)

\* os.Getwd(): the directory, or an error.
GetwdOK == [ok |-> TRUE, dir |-> Cwd]
GetwdErr == [ok |-> FALSE, dir |-> Cwd]
GetwdOutcomes == {GetwdOK, GetwdErr}

\* path.IsAbs
IsAbs(p) == p.abs

RECURSIVE CleanSegs(_, _, _)
\* path.Clean on the elements of a path: drops "" and ".", resolves "..".
CleanSegs(segs, out, rooted) ==
    IF segs = <<>> THEN out
    ELSE LET s == Head(segs)
             rest == Tail(segs)
         IN  IF s = "" \/ s = "." THEN CleanSegs(rest, out, rooted)
             ELSE IF s = ".."
                  THEN IF out # <<>> /\ out[Len(out)] # ".."
                       THEN CleanSegs(rest, SubSeq(out, 1, Len(out) - 1), rooted)
                       ELSE IF rooted THEN CleanSegs(rest, out, rooted)
                            ELSE CleanSegs(rest, Append(out, ".."), rooted)
                  ELSE CleanSegs(rest, Append(out, s), rooted)

\* path.Join(a, b): the non-empty elements joined by "/", then cleaned.
Join(a, b) == Path(a.abs, CleanSegs(a.segs \o b.segs, <<>>, a.abs))

\* absoluteNodePath, wd being what os.Getwd returns if it is called.
absoluteNodePath(node, wd) ==
    IF IsAbs(node) THEN node
    ELSE IF ~wd.ok THEN node
         ELSE Join(wd.dir, node)

-----------------------------------------------------------------------------
(* Step names *)

\* Bytes that are not valid UTF-8, each written as one character.
InvalidUTF8 == {"xFE", "xFF"}

\* encoding/json's escaping of one character of a string: a quote and a
\* backslash get a backslash, <, > and & become \u00XX, a byte that is not
\* valid UTF-8 becomes \ufffd, the rest is copied.
JSONEscape(ch) ==
    IF ch = "\"" THEN <<"\\", "\"">>
    ELSE IF ch = "\\" THEN <<"\\", "\\">>
    ELSE IF ch = "<" THEN <<"\\", "u", "0", "0", "3", "c">>
    ELSE IF ch = ">" THEN <<"\\", "u", "0", "0", "3", "e">>
    ELSE IF ch = "&" THEN <<"\\", "u", "0", "0", "2", "6">>
    ELSE IF ch \in InvalidUTF8 THEN <<"\\", "u", "f", "f", "f", "d">>
    ELSE <<ch>>

RECURSIVE JSONString(_)
\* The characters of a token between the quotes.
JSONString(tok) ==
    IF tok = <<>> THEN <<>>
    ELSE JSONEscape(Head(tok)) \o JSONString(Tail(tok))

RECURSIVE JSONElems(_)
\* "t1","t2",...
JSONElems(c) ==
    IF c = <<>> THEN <<>>
    ELSE LET q == <<"\"">> \o JSONString(Head(c)) \o <<"\"">>
         IN  IF Len(c) = 1 THEN q ELSE q \o <<",">> \o JSONElems(Tail(c))

\* CmdTree.Name: json.Marshal of the token slice ("[]" for an empty one).
Name(c) == <<"[">> \o JSONElems(c) \o <<"]">>

-----------------------------------------------------------------------------
(* walkUpStepTree *)

\* The slice taken one element short: step[0:i].
SubTreeShort(step, i) == SubSeq(step, 1, i)

\* subTree := step[0 : i+1], i counted from 0.
SubTree(step, i) == SubSeq(step, 1, i + 1)

RECURSIVE WalkLoop(_, _, _)
\* for i := range step { f(step[0:i+1]) }; calls is the sequence of arguments
\* f has been called with.
WalkLoop(step, i, calls) ==
    IF i >= Len(step) THEN calls
    ELSE WalkLoop(step, i + 1, Append(calls, SubTree(step, i)))

\* The calls of f that walkUpStepTree(step, f) makes, in order.
walkUpStepTree(step) == WalkLoop(step, 0, <<>>)

-----------------------------------------------------------------------------
(* NewDependencyGraph *)

Writers(fw, f) == IF f \in DOMAIN fw THEN fw[f] ELSE <<>>

\* The callback with the lookup of the existing step left out: every call
\* starts from a new step with an empty readFiles.
CallbackNewStep(g, mode, node, cmdTree) ==
    LET nm == Name(cmdTree)
        rf == IF mode = "R" THEN {node} ELSE {}
        fw == IF mode = "R" THEN g.fileWriters
              ELSE [f \in DOMAIN g.fileWriters \cup {node} |->
                       IF f = node THEN Append(Writers(g.fileWriters, node), nm)
                       ELSE g.fileWriters[f]]
    IN  [steps |-> [n \in DOMAIN g.steps \cup {nm} |-> IF n = nm THEN rf ELSE g.steps[n]],
         fileWriters |-> fw]

\* The callback recording a read only in the step it creates: a step that
\* exists keeps the read set it has.
CallbackNoAppend(g, mode, node, cmdTree) ==
    IF mode = "R" /\ Name(cmdTree) \in DOMAIN g.steps THEN g
    ELSE CallbackNewStep(g, mode, node, cmdTree)

\* The callback NewDependencyGraph gives to walkUpStepTree, on graph g.
Callback(g, mode, node, cmdTree) ==
    LET nm == Name(cmdTree)
        old == IF nm \in DOMAIN g.steps THEN g.steps[nm] ELSE {}
        rf == IF mode = "R" THEN old \cup {node} ELSE old
        fw == IF mode = "R" THEN g.fileWriters
              ELSE [f \in DOMAIN g.fileWriters \cup {node} |->
                       IF f = node THEN Append(Writers(g.fileWriters, node), nm)
                       ELSE g.fileWriters[f]]
    IN  [steps |-> [n \in DOMAIN g.steps \cup {nm} |-> IF n = nm THEN rf ELSE g.steps[n]],
         fileWriters |-> fw]

RECURSIVE FoldCallback(_, _, _, _)
FoldCallback(g, mode, node, calls) ==
    IF calls = <<>> THEN g
    ELSE FoldCallback(Callback(g, mode, node, Head(calls)), mode, node, Tail(calls))

\* g := &DependencyGraph{steps: map[string]*step{}, fileWriters: map[string][]*step{}}
EmptyGraph == [steps |-> <<>>, fileWriters |-> <<>>]

RECURSIVE ScanAll(_, _)
\* The loop of NewDependencyGraph run to the end of a report of well-formed
\* records: the graph it returns.
ScanAll(g, records) ==
    IF records = <<>> THEN g
    ELSE LET r == Head(records)
         IN  ScanAll(FoldCallback(g, r.Mode, r.File, walkUpStepTree(r.CmdTree)), Tail(records))

\* One record of the build report decoded by json.Unmarshal.
Record(c, m, f) == [ok |-> TRUE, CmdTree |-> c, Mode |-> m, File |-> f]

\* A line json.Unmarshal rejects.
BadRecord == [ok |-> FALSE, CmdTree |-> <<>>, Mode |-> "", File |-> Path(FALSE, <<>>)]

NoReason == [kind |-> "none", step |-> <<>>, file |-> Path(FALSE, <<>>)]
NoQuery == [called |-> FALSE, cmdTree |-> <<>>, changedFiles |-> <<>>]
NoResult == [depends |-> FALSE, reason |-> NoReason, err |-> "nil"]
NoWalk == [step |-> <<>>, i |-> 0, calls |-> <<>>, done |-> FALSE]

\* The callers of StepDependsOnFiles: goroutines that share the built graph.
Procs == {1, 2}

NoProc == [pc |-> "idle", cmdTree |-> <<>>, changedFiles |-> <<>>, calls |-> 0,
           stack |-> <<>>, out |-> NoResult, expanded |-> <<>>]
NoCmd == [pc |-> "off", osArgs |-> <<>>, buildIDFlag |-> <<>>, args |-> <<>>,
          id |-> <<>>, load |-> "none", ran |-> <<>>, exit |-> 0,
          shouldRun |-> [called |-> FALSE, run |-> FALSE, err |-> "nil"], depth |-> 0]
NoFile == [exists |-> FALSE, content |-> <<>>]
NoChild == [id |-> <<>>, args |-> <<>>, cap |-> 0, result |-> <<>>, argsAfter |-> <<>>,
            done |-> FALSE]
NoNaming == [c |-> <<>>, name |-> <<>>, done |-> FALSE]

\* No query in progress, no skipper process, no function under test.
InitRest ==
    /\ proc = [q \in Procs |-> NoProc]
    /\ stepChecked = [q \in Procs |-> {}]
    /\ cmd = NoCmd
    /\ idFile = NoFile
    /\ child = NoChild
    /\ naming = NoNaming

InitGraph ==
    /\ phase = "scanning"
    /\ steps = <<>>
    /\ fileWriters = <<>>
    /\ buildErr = "nil"
    /\ trace = {}
    /\ nrec = 0
    /\ query = NoQuery
    /\ changedAfter = <<>>
    /\ res = NoResult

Init ==
    /\ phase = "scanning"
    /\ steps = <<>>
    /\ fileWriters = <<>>
    /\ buildErr = "nil"
    /\ trace = {}
    /\ nrec = 0
    /\ walk = NoWalk
    /\ query = NoQuery
    /\ changedAfter = <<>>
    /\ res = NoResult
    /\ InitRest

\* scanner.Scan() returned a line and json.Unmarshal decoded it: the loop body.
ScanRecord(r, max) ==
    /\ phase = "scanning"
    /\ nrec < max
    /\ r.ok
    /\ LET g == FoldCallback([steps |-> steps, fileWriters |-> fileWriters],
                             r.Mode, r.File, walkUpStepTree(r.CmdTree))
       IN  /\ steps' = g.steps
           /\ fileWriters' = g.fileWriters
    /\ trace' = trace \cup {r}
    /\ nrec' = nrec + 1
    /\ UNCHANGED <<phase, buildErr, walk, queryVars, stepVars, cmdVars, funcVars>>

\* The rejected line dropped and the scan carried on.
ScanMalformedSkip(max) ==
    /\ phase = "scanning"
    /\ nrec < max
    /\ trace' = trace \cup {BadRecord}
    /\ nrec' = nrec + 1
    /\ UNCHANGED <<phase, buildErr, steps, fileWriters, walk, queryVars, stepVars, cmdVars, funcVars>>

\* scanner.Scan() returned a line json.Unmarshal rejects: return nil, err.
ScanMalformed(max) ==
    /\ phase = "scanning"
    /\ nrec < max
    /\ phase' = "failed"
    /\ buildErr' = "unmarshal"
    /\ steps' = <<>>
    /\ fileWriters' = <<>>
    /\ trace' = trace \cup {BadRecord}
    /\ nrec' = nrec + 1
    /\ UNCHANGED <<walk, queryVars, stepVars, cmdVars, funcVars>>

\* scanner.Scan() returned false with scanner.Err() != nil: return nil, err.
ScanError ==
    /\ phase = "scanning"
    /\ phase' = "failed"
    /\ buildErr' = "scanner"
    /\ steps' = <<>>
    /\ fileWriters' = <<>>
    /\ UNCHANGED <<trace, nrec, walk, queryVars, stepVars, cmdVars, funcVars>>

\* scanner.Scan() returned false at end of stream: return g, nil.
ScanEOF ==
    /\ phase = "scanning"
    /\ phase' = "built"
    /\ UNCHANGED <<steps, fileWriters, buildErr, trace, nrec, walk, queryVars, stepVars, cmdVars, funcVars>>

-----------------------------------------------------------------------------
(* fileDeps and StepDependsOnFiles *)

\* A Go map is ranged in an unspecified order, so fileDeps and
\* StepDependsOnFiles are modelled by the set of results they can produce,
\* one per order in which each readFiles map can be ranged.

RangeOf(seq) == {seq[i] : i \in 1..Len(seq)}

RECURSIVE fileDeps(_, _, _), FileDepsWriters(_, _, _, _), FileDepsReads(_, _, _, _)

\* fileDeps without the ignoreFiles test.
fileDepsNoIgnore(g, checked, filePath) ==
    FileDepsWriters(g, filePath, Writers(g.fileWriters, filePath),
                    [files |-> <<>>, checked |-> checked])

\* fileDeps finding no writer to expand, whatever the file.
fileDepsNothing(g, checked, filePath) == {[files |-> <<>>, checked |-> checked]}

\* fileDeps(s, filePath) called with s.stepChecked = checked: the possible
\* [files, checked] on return.
fileDeps(g, checked, filePath) ==
    IF filePath \in ignoreFiles THEN {[files |-> <<>>, checked |-> checked]}
    ELSE FileDepsWriters(g, filePath, Writers(g.fileWriters, filePath),
                         [files |-> <<>>, checked |-> checked])

\* for _, step := range g.fileWriters[filePath], ws the writers still to visit.
FileDepsWriters(g, filePath, ws, st) ==
    IF ws = <<>> THEN {st}
    ELSE LET step == Head(ws)
         IN  IF step \in st.checked
             THEN FileDepsWriters(g, filePath, Tail(ws), st)
             ELSE UNION {FileDepsWriters(g, filePath, Tail(ws), st2) :
                           st2 \in FileDepsReads(g, filePath, g.steps[step],
                                       [files |-> st.files,
                                        checked |-> st.checked \cup {step}])}

\* for file := range step.readFiles, todo the files still to range over.
FileDepsReads(g, filePath, todo, st) ==
    IF todo = {} THEN {st}
    ELSE UNION {IF file = filePath
                THEN FileDepsReads(g, filePath, todo \ {file}, st)
                ELSE UNION {FileDepsReads(g, filePath, todo \ {file},
                                [files |-> st.files \o <<file>> \o sub.files,
                                 checked |-> sub.checked]) :
                              sub \in fileDeps(g, st.checked, file)} :
                  file \in todo}

DirectReason(nm, f) == [kind |-> "direct", step |-> nm, file |-> f]
TransitiveReason(nm, f) == [kind |-> "transitive", step |-> nm, file |-> f]

\* The first element of files that is one of changed (files has one).
FirstMatch(files, changed) ==
    files[CHOOSE i \in 1..Len(files) :
             /\ files[i] \in changed
             /\ \A j \in 1..(i - 1) : files[j] \notin changed]

RECURSIVE DependsLoop(_, _, _, _, _)

\* The loop with the comparison against changedFiles dropped from the
\* transitive test: any transitive dependency counts.
DependsLoopAnyDep(g, nm, changed, todo, checked) ==
    IF todo = {} THEN {NoResult}
    ELSE UNION {IF stepReadFile \in changed
                THEN {[depends |-> TRUE, reason |-> DirectReason(nm, stepReadFile), err |-> "nil"]}
                ELSE UNION {IF deps.files # <<>>
                            THEN {[depends |-> TRUE,
                                   reason |-> TransitiveReason(nm, deps.files[1]),
                                   err |-> "nil"]}
                            ELSE DependsLoop(g, nm, changed, todo \ {stepReadFile}, deps.checked) :
                              deps \in fileDeps(g, checked, stepReadFile)} :
                  stepReadFile \in todo}

\* for stepReadFile := range step.readFiles, todo the files still to range over.
DependsLoop(g, nm, changed, todo, checked) ==
    IF todo = {} THEN {NoResult}
    ELSE UNION {IF stepReadFile \in changed
                THEN {[depends |-> TRUE, reason |-> DirectReason(nm, stepReadFile), err |-> "nil"]}
                ELSE UNION {IF RangeOf(deps.files) \cap changed # {}
                            THEN {[depends |-> TRUE,
                                   reason |-> TransitiveReason(nm, FirstMatch(deps.files, changed)),
                                   err |-> "nil"]}
                            ELSE DependsLoop(g, nm, changed, todo \ {stepReadFile}, deps.checked) :
                              deps \in fileDeps(g, checked, stepReadFile)} :
                  stepReadFile \in todo}

\* changedFiles[i] = absoluteNodePath(f) for every entry; wds[i] is what
\* os.Getwd returns in the i-th call.
NormalizeAll(changedFiles, wds) ==
    [i \in 1..Len(changedFiles) |-> absoluteNodePath(changedFiles[i], wds[i])]

UnknownStep == [depends |-> FALSE, reason |-> NoReason, err |-> "unknown step"]

\* StepDependsOnFiles answering "no dependency" for a step it does not know.
StepDependsOnFilesNoError(g, cmdTree, changedFiles, wds) ==
    LET changed == RangeOf(NormalizeAll(changedFiles, wds))
        nm == Name(cmdTree)
    IN  IF nm \notin DOMAIN g.steps THEN {NoResult}
        ELSE DependsLoop(g, nm, changed, g.steps[nm], {})

\* The results StepDependsOnFiles(cmdTree, changedFiles) can return on g.
StepDependsOnFiles(g, cmdTree, changedFiles, wds) ==
    LET changed == RangeOf(NormalizeAll(changedFiles, wds))
        nm == Name(cmdTree)
    IN  IF nm \notin DOMAIN g.steps THEN {UnknownStep}
        ELSE DependsLoop(g, nm, changed, g.steps[nm], {})

Graph == [steps |-> steps, fileWriters |-> fileWriters]

\* One call of StepDependsOnFiles on the built graph.
Query(cmdTree, changedFiles, wds) ==
    /\ phase = "built"
    /\ query' = [called |-> TRUE, cmdTree |-> cmdTree, changedFiles |-> changedFiles]
    /\ changedAfter' = NormalizeAll(changedFiles, wds)
    /\ res' \in StepDependsOnFiles(Graph, cmdTree, changedFiles, wds)
    /\ UNCHANGED <<graphVars, walk, stepVars, cmdVars, funcVars>>

\* The call the command line makes: the first and only one on its graph.
FirstQuery(cmdTree, changedFiles, wds) ==
    /\ ~query.called
    /\ Query(cmdTree, changedFiles, wds)

-----------------------------------------------------------------------------
(* The earlier search: fileDeps and StepDependsOnFile without a lookupState *)

RECURSIVE fileDepsUnmemoized(_, _), UnmemoizedWriters(_, _, _), UnmemoizedReads(_, _, _)

\* The earlier fileDeps(filePath): the lists it can return, one per order in
\* which the readFiles maps can be ranged.  It does not return on a graph
\* with a cycle.
fileDepsUnmemoized(g, filePath) ==
    UnmemoizedWriters(g, Writers(g.fileWriters, filePath), <<>>)

\* for _, step := range g.fileWriters[filePath]
UnmemoizedWriters(g, ws, files) ==
    IF ws = <<>> THEN {files}
    ELSE UNION {UnmemoizedWriters(g, Tail(ws), more) :
                  more \in UnmemoizedReads(g, g.steps[Head(ws)], files)}

\* for file := range step.readFiles
UnmemoizedReads(g, todo, files) ==
    IF todo = {} THEN {files}
    ELSE UNION {UNION {UnmemoizedReads(g, todo \ {file}, files \o <<file>> \o sub) :
                         sub \in fileDepsUnmemoized(g, file)} :
                  file \in todo}

RECURSIVE StepDependsOnFileLoop(_, _, _)
\* for f := range step.readFiles of the earlier StepDependsOnFile.
StepDependsOnFileLoop(g, filePath, todo) ==
    IF todo = {} THEN {[depends |-> FALSE, err |-> "nil"]}
    ELSE UNION {IF f = filePath THEN {[depends |-> TRUE, err |-> "nil"]}
                ELSE UNION {IF filePath \in RangeOf(deps)
                            THEN {[depends |-> TRUE, err |-> "nil"]}
                            ELSE StepDependsOnFileLoop(g, filePath, todo \ {f}) :
                              deps \in fileDepsUnmemoized(g, f)} :
                  f \in todo}

\* The earlier StepDependsOnFile(stepName, filePath): the (bool, error) it
\* can return on g.
StepDependsOnFile(g, stepName, filePath) ==
    IF stepName \notin DOMAIN g.steps THEN {[depends |-> FALSE, err |-> "unknown step"]}
    ELSE StepDependsOnFileLoop(g, filePath, g.steps[stepName])

-----------------------------------------------------------------------------
(* StepDependsOnFiles and fileDeps, one loop iteration per step *)

\* A call of StepDependsOnFiles by caller q runs on its own stack of frames:
\* the frame of StepDependsOnFiles at the bottom, one frame per active call of
\* fileDeps above it.  Several callers take their steps in any order.

MaxStack == 6  \* frames a caller may have on its stack
MaxCalls == 2  \* times a caller repeats a call with the same arguments

NoPath == Path(FALSE, <<>>)

Frame(fn, filePath, at, ws, todo, files) ==
    [fn |-> fn, filePath |-> filePath, at |-> at, ws |-> ws, todo |-> todo, files |-> files]

\* The frame of StepDependsOnFiles about to range over step.readFiles.
SDFFrame(readFiles) == Frame("StepDependsOnFiles", NoPath, "range", <<>>, readFiles, <<>>)

\* The frame of fileDeps(s, filePath) on entry.
FDFrame(filePath) == Frame("fileDeps", filePath, "entry", <<>>, {}, <<>>)

\* Every caller passing one and the same lookupState.
LookupShared(q) == 1

\* The lookupState caller q passes down: the one its own call allocated.
LookupOf(q) == q

\* The stepChecked of the previous call kept for the next one.
KeepLookupState(old) == old

\* s := &lookupState{stepChecked: map[string]bool{}}
NewLookupState(old) == {}

\* The step left unmarked.
MarkNothing(checked, stepName) == checked

\* s.stepChecked[step.name] = true
Mark(checked, stepName) == checked \cup {stepName}

\* The test of s.stepChecked left out: every writer is expanded.
IsCheckedNever(checked, stepName) == FALSE

\* if s.stepChecked[step.name]
IsChecked(checked, stepName) == stepName \in checked

\* The test of the file against the one being expanded left out.
IsSelfNever(file, filePath) == FALSE

\* if file == filePath { continue }
IsSelf(file, filePath) == file = filePath

Top(q) == proc[q].stack[Len(proc[q].stack)]
Below(q) == SubSeq(proc[q].stack, 1, Len(proc[q].stack) - 1)
ChangedOf(q) == RangeOf(proc[q].changedFiles)
AllGetwdOK(cf) == [i \in 1..Len(cf) |-> GetwdOK]

\* StepDependsOnFiles returns r to caller q.
Finish(q, r) ==
    /\ proc' = [proc EXCEPT ![q].pc = "done", ![q].stack = <<>>, ![q].out = r]
    /\ UNCHANGED stepChecked

\* Caller q enters StepDependsOnFiles for the n-th time with these arguments:
\* the paths are normalized, the step is looked up, the lookupState is made.
Enter(q, cmdTree, changedFiles, n) ==
    LET cf == NormalizeAll(changedFiles, AllGetwdOK(changedFiles))
        nm == Name(cmdTree)
        p == [proc[q] EXCEPT !.cmdTree = cmdTree, !.changedFiles = cf, !.calls = n,
                             !.expanded = [s \in DOMAIN steps |-> 0]]
    IN  IF nm \notin DOMAIN steps
        THEN /\ proc' = [proc EXCEPT ![q] = [p EXCEPT !.pc = "done", !.stack = <<>>,
                                                      !.out = UnknownStep]]
             /\ UNCHANGED stepChecked
        ELSE /\ proc' = [proc EXCEPT ![q] = [p EXCEPT !.pc = "run",
                                                      !.stack = <<SDFFrame(steps[nm])>>]]
             /\ stepChecked' = [stepChecked EXCEPT
                                   ![LookupOf(q)] = NewLookupState(stepChecked[LookupOf(q)])]

\* A caller calls StepDependsOnFiles.
Start(q, cmdTree, changedFiles) ==
    /\ phase = "built"
    /\ proc[q].pc = "idle"
    /\ Enter(q, cmdTree, changedFiles, 1)
    /\ UNCHANGED <<graphVars, walk, queryVars, cmdVars, funcVars>>

\* A caller whose call has returned makes another call, with other arguments.
StartNext(q, cmdTree, changedFiles) ==
    /\ phase = "built"
    /\ proc[q].pc = "done"
    /\ <<cmdTree, changedFiles>> # <<proc[q].cmdTree, proc[q].changedFiles>>
    /\ Enter(q, cmdTree, changedFiles, 1)
    /\ UNCHANGED <<graphVars, walk, queryVars, cmdVars, funcVars>>

\* A caller whose call has returned repeats it with the same step and the same
\* slice; out holds what the previous call returned until this one returns.
StartAgain(q) ==
    /\ phase = "built"
    /\ proc[q].pc = "done"
    /\ proc[q].calls < MaxCalls
    /\ Enter(q, proc[q].cmdTree, proc[q].changedFiles, proc[q].calls + 1)
    /\ UNCHANGED <<graphVars, walk, queryVars, cmdVars, funcVars>>

\* One iteration of for stepReadFile := range step.readFiles, up to the call
\* of fileDeps; the loop ended: return false, "", nil.
SDFRange(q) ==
    /\ proc[q].pc = "run"
    /\ Top(q).fn = "StepDependsOnFiles"
    /\ LET f == Top(q)
           nm == Name(proc[q].cmdTree)
       IN  IF f.todo = {} THEN Finish(q, NoResult)
           ELSE \E stepReadFile \in f.todo :
                   IF stepReadFile \in ChangedOf(q)
                   THEN Finish(q, [depends |-> TRUE, reason |-> DirectReason(nm, stepReadFile),
                                   err |-> "nil"])
                   ELSE /\ Len(proc[q].stack) < MaxStack
                        /\ proc' = [proc EXCEPT ![q].stack =
                                       <<[f EXCEPT !.todo = @ \ {stepReadFile}],
                                         FDFrame(stepReadFile)>>]
                        /\ UNCHANGED stepChecked
    /\ UNCHANGED <<graphVars, walk, queryVars, cmdVars, funcVars>>

\* fileDeps returns ret: to fileDeps, which appends it to files, or to
\* StepDependsOnFiles, which compares it against changedFiles.
Return(q, ret) ==
    LET caller == proc[q].stack[Len(proc[q].stack) - 1]
        under == SubSeq(proc[q].stack, 1, Len(proc[q].stack) - 2)
        nm == Name(proc[q].cmdTree)
    IN  IF caller.fn = "fileDeps"
        THEN /\ proc' = [proc EXCEPT ![q].stack =
                            Append(under, [caller EXCEPT !.files = @ \o ret])]
             /\ UNCHANGED stepChecked
        ELSE IF RangeOf(ret) \cap ChangedOf(q) # {}
             THEN Finish(q, [depends |-> TRUE,
                             reason |-> TransitiveReason(nm, FirstMatch(ret, ChangedOf(q))),
                             err |-> "nil"])
             ELSE /\ proc' = [proc EXCEPT ![q].stack = Append(under, caller)]
                  /\ UNCHANGED stepChecked

\* Entry of fileDeps: the ignoreFiles test.
FDEntry(q) ==
    /\ proc[q].pc = "run"
    /\ Top(q).fn = "fileDeps"
    /\ Top(q).at = "entry"
    /\ LET f == Top(q)
       IN  IF f.filePath \in ignoreFiles THEN Return(q, <<>>)
           ELSE /\ proc' = [proc EXCEPT ![q].stack =
                               Append(Below(q), [f EXCEPT !.at = "writers",
                                                          !.ws = Writers(fileWriters, f.filePath)])]
                /\ UNCHANGED stepChecked
    /\ UNCHANGED <<graphVars, walk, queryVars, cmdVars, funcVars>>

\* One iteration of for _, step := range g.fileWriters[filePath], up to the
\* loop over step.readFiles; the loop ended: return files.
FDWriters(q) ==
    /\ proc[q].pc = "run"
    /\ Top(q).fn = "fileDeps"
    /\ Top(q).at = "writers"
    /\ LET f == Top(q)
           s == LookupOf(q)
       IN  IF f.ws = <<>> THEN Return(q, f.files)
           ELSE IF IsChecked(stepChecked[s], Head(f.ws))
                THEN /\ proc' = [proc EXCEPT ![q].stack =
                                    Append(Below(q), [f EXCEPT !.ws = Tail(@)])]
                     /\ UNCHANGED stepChecked
                ELSE /\ stepChecked' = [stepChecked EXCEPT ![s] = Mark(@, Head(f.ws))]
                     /\ proc' = [proc EXCEPT ![q].stack =
                                    Append(Below(q), [f EXCEPT !.at = "reads",
                                                               !.ws = Tail(@),
                                                               !.todo = steps[Head(f.ws)]]),
                                              ![q].expanded[Head(f.ws)] = @ + 1]
    /\ UNCHANGED <<graphVars, walk, queryVars, cmdVars, funcVars>>

\* One iteration of for file := range step.readFiles, up to the recursive
\* call; the loop ended: back to the loop over the writers.
FDReads(q) ==
    /\ proc[q].pc = "run"
    /\ Top(q).fn = "fileDeps"
    /\ Top(q).at = "reads"
    /\ LET f == Top(q)
       IN  IF f.todo = {}
           THEN proc' = [proc EXCEPT ![q].stack = Append(Below(q), [f EXCEPT !.at = "writers"])]
           ELSE \E file \in f.todo :
                   IF IsSelf(file, f.filePath)
                   THEN proc' = [proc EXCEPT ![q].stack =
                                    Append(Below(q), [f EXCEPT !.todo = @ \ {file}])]
                   ELSE /\ Len(proc[q].stack) < MaxStack
                        /\ proc' = [proc EXCEPT ![q].stack =
                                       Below(q) \o <<[f EXCEPT !.todo = @ \ {file},
                                                               !.files = Append(@, file)],
                                                     FDFrame(file)>>]
    /\ UNCHANGED stepChecked
    /\ UNCHANGED <<graphVars, walk, queryVars, cmdVars, funcVars>>

\* Any step of caller q inside StepDependsOnFiles.
StepOf(q) == SDFRange(q) \/ FDEntry(q) \/ FDWriters(q) \/ FDReads(q)

-----------------------------------------------------------------------------
(* The skipper command: rootCmd.Run *)

\* A string is a sequence of one-character strings; a command line is a
\* sequence of strings.
DashDash == <<"-", "-">>
IDFlag == <<"-", "-", "i", "d">>
Space == {" ", "\n", "\t"}

RECURSIVE TrimLeft(_)
TrimLeft(s) == IF s # <<>> /\ Head(s) \in Space THEN TrimLeft(Tail(s)) ELSE s

RECURSIVE TrimRight(_)
TrimRight(s) ==
    IF s # <<>> /\ s[Len(s)] \in Space THEN TrimRight(SubSeq(s, 1, Len(s) - 1)) ELSE s

\* strings.TrimSpace
TrimSpace(s) == TrimRight(TrimLeft(s))

RECURSIVE StringsJoin(_, _)
\* strings.Join(elems, sep)
StringsJoin(elems, sep) ==
    IF elems = <<>> THEN <<>>
    ELSE IF Len(elems) = 1 THEN elems[1]
         ELSE elems[1] \o sep \o StringsJoin(Tail(elems), sep)

\* The flag and the ID appended after the user's arguments.
childSkipperArgsAtEnd(buildID, args) == args \o <<IDFlag, buildID>>

\* childSkipperArgs: i := 1; append(args[:i], append([]string{"--id", buildID}, args[i:]...)...)
childSkipperArgs(buildID, args) ==
    SubSeq(args, 1, 1) \o (<<IDFlag, buildID>> \o SubSeq(args, 2, Len(args)))

\* The caller's args after childSkipperArgs returned: the outer append writes
\* into the array of args when its capacity holds the result, and into a new
\* array otherwise.
callerArgsAfter(buildID, args, capacity) ==
    IF capacity >= Len(args) + 2
    THEN SubSeq(childSkipperArgs(buildID, args), 1, Len(args))
    ELSE args

\* currentStepName: the arguments joined by a space, as an ancestry of one token.
currentStepName(args) == <<StringsJoin(args, <<" ">>)>>

\* shouldRun answering "skip" when the engine fails.
shouldRunFailClosed(r) ==
    IF r.err # "nil" THEN [called |-> TRUE, run |-> FALSE, err |-> r.err]
    ELSE IF r.depends THEN [called |-> TRUE, run |-> TRUE, err |-> "nil"]
         ELSE [called |-> TRUE, run |-> FALSE, err |-> "nil"]

\* stepSkipper.shouldRun, r being what StepDependsOnFiles returned.
shouldRun(r) ==
    IF r.err # "nil" THEN [called |-> TRUE, run |-> TRUE, err |-> r.err]
    ELSE IF r.depends THEN [called |-> TRUE, run |-> TRUE, err |-> "nil"]
         ELSE [called |-> TRUE, run |-> FALSE, err |-> "nil"]

\* The ID newBuildULID makes: id.String(), 26 characters of Crockford's base32.
NewID ==
    <<"0", "1", "A", "R", "Z", "3", "N", "D", "E", "K", "T", "S", "V",
      "4", "R", "R", "F", "F", "Q", "6", "9", "G", "5", "F", "A", "V">>

\* os.Exit(1)
Exit1 == [cmd EXCEPT !.pc = "exited", !.exit = 1]

\* Run is entered: nothing to do without a command; without --id this is a
\* parent skipper, with it the child.
RunStart ==
    /\ cmd.pc = "start"
    /\ cmd' = IF cmd.args = <<>> THEN [cmd EXCEPT !.pc = "returned"]
              ELSE IF cmd.buildIDFlag = <<>> THEN [cmd EXCEPT !.pc = "buildULIDFromFile"]
                   ELSE [cmd EXCEPT !.pc = "currentStepName"]
    /\ UNCHANGED <<graphVars, walk, queryVars, stepVars, idFile, funcVars>>

\* buildULIDFromFile.  homedir.Expand fails: the error is returned and Run
\* exits.  ioutil.ReadFile fails ("error": for another reason than a missing
\* file) or the file is missing or empty: the ID is "".  Otherwise the ID is the
\* content with the white space around it trimmed.
ReadBuildID(outcome) ==
    /\ cmd.pc = "buildULIDFromFile"
    /\ cmd' = IF outcome = "expand" THEN Exit1
              ELSE LET content == IF outcome = "error" \/ ~idFile.exists THEN <<>>
                                  ELSE idFile.content
                       id == IF content = <<>> THEN <<>> ELSE TrimSpace(content)
                   IN  [cmd EXCEPT !.id = id,
                                   !.pc = IF id = <<>> THEN "newBuildULID"
                                          ELSE "childSkipperArgs"]
    /\ UNCHANGED <<graphVars, walk, queryVars, stepVars, idFile, funcVars>>

\* newBuildULID
NewBuildID(outcome) ==
    /\ cmd.pc = "newBuildULID"
    /\ cmd' = IF outcome = "error" THEN Exit1
              ELSE [cmd EXCEPT !.id = NewID, !.pc = "saveBuildULID"]
    /\ UNCHANGED <<graphVars, walk, queryVars, stepVars, idFile, funcVars>>

\* saveBuildULID.  homedir.Expand or os.OpenFile fails: the file is as it was.
\* os.OpenFile succeeds: the file exists and is truncated; io.WriteString then
\* writes the ID or fails.
SaveBuildID(outcome) ==
    /\ cmd.pc = "saveBuildULID"
    /\ cmd' = IF outcome = "ok" THEN [cmd EXCEPT !.pc = "childSkipperArgs"] ELSE Exit1
    /\ idFile' = IF outcome \in {"expand", "open"} THEN idFile
                 ELSE IF outcome = "write" THEN [exists |-> TRUE, content |-> <<>>]
                      ELSE [exists |-> TRUE, content |-> cmd.id]
    /\ UNCHANGED <<graphVars, walk, queryVars, stepVars, funcVars>>

\* args = childSkipperArgs(id, os.Args)
ChildArgs ==
    /\ cmd.pc = "childSkipperArgs"
    /\ cmd' = [cmd EXCEPT !.args = childSkipperArgs(cmd.id, cmd.osArgs), !.pc = "run"]
    /\ UNCHANGED <<graphVars, walk, queryVars, stepVars, idFile, funcVars>>

\* stepName, err := currentStepName(args); it returns no error.
StepName ==
    /\ cmd.pc = "currentStepName"
    /\ cmd' = [cmd EXCEPT !.pc = "newStepSkipper"]
    /\ UNCHANGED <<graphVars, walk, queryVars, stepVars, idFile, funcVars>>

\* newStepSkipper up to the call of NewDependencyGraph: builddata.OpenFile
\* and updatedNodes, either of which can fail.
OpenInputs(outcome) ==
    /\ cmd.pc = "newStepSkipper"
    /\ cmd' = [cmd EXCEPT !.load = outcome,
                          !.pc = IF outcome = "ok" THEN "NewDependencyGraph" ELSE "run"]
    /\ UNCHANGED <<graphVars, walk, queryVars, stepVars, idFile, funcVars>>

\* NewDependencyGraph has returned: with an error newStepSkipper returns it
\* and Run falls back to running, otherwise Run goes on to shouldRun.
GraphReturn ==
    /\ cmd.pc = "NewDependencyGraph"
    /\ phase # "scanning"
    /\ cmd' = [cmd EXCEPT !.pc = IF phase = "built" THEN "shouldRun" ELSE "run"]
    /\ UNCHANGED <<graphVars, walk, queryVars, stepVars, idFile, funcVars>>

\* shouldRun has the engine's answer: Run runs the command or skips it.
ShouldRunReturn ==
    /\ cmd.pc = "shouldRun"
    /\ query.called
    /\ LET sr == shouldRun(res)
       IN  cmd' = [cmd EXCEPT !.shouldRun = sr,
                              !.pc = IF sr.err # "nil" \/ sr.run THEN "run" ELSE "returned"]
    /\ UNCHANGED <<graphVars, walk, queryVars, stepVars, idFile, funcVars>>

\* run(): exec.Command(args[0], args[1:]...).Run(), which succeeds or fails.
RunCommand(outcome) ==
    /\ cmd.pc = "run"
    /\ cmd' = IF outcome = "ok"
              THEN [cmd EXCEPT !.ran = Append(@, cmd.args), !.pc = "returned"]
              ELSE [Exit1 EXCEPT !.ran = Append(@, cmd.args)]
    /\ UNCHANGED <<graphVars, walk, queryVars, stepVars, idFile, funcVars>>

RECURSIVE ParseFlags(_, _, _)
\* The flag parsing of a command line from its i-th argument on, id being the
\* value of --id so far: "--id v" sets it (a later one replaces an earlier
\* one, and v may be empty), "--" ends the flags.
ParseFlags(a, i, id) ==
    IF i > Len(a) \/ a[i] = DashDash THEN id
    ELSE IF a[i] = IDFlag /\ i < Len(a) THEN ParseFlags(a, i + 2, a[i + 1])
         ELSE ParseFlags(a, i + 1, id)

\* buildIDFlag of a process started with the command line a:
\* StringVar(&buildIDFlag, "id", "", ...).
ParseIDFlag(a) == ParseFlags(a, 2, <<>>)

RECURSIVE AfterDashDash(_)
\* The args Run is given: what follows the first "--".
AfterDashDash(a) ==
    IF a = <<>> THEN <<>>
    ELSE IF Head(a) = DashDash THEN Tail(a) ELSE AfterDashDash(Tail(a))

\* How many nested skippers the model follows.
MaxSpawns == 2

\* run() of a parent skipper: cm.Run() starts the program args[0], the
\* skipper itself, with args[1:]; the process looked at is now that child.
ExecSkipper ==
    /\ cmd.pc = "run"
    /\ cmd.buildIDFlag = <<>>
    /\ cmd.depth < MaxSpawns
    /\ cmd' = [NoCmd EXCEPT !.pc = "start", !.osArgs = cmd.args,
                            !.buildIDFlag = ParseIDFlag(cmd.args),
                            !.args = AfterDashDash(cmd.args),
                            !.depth = cmd.depth + 1]
    /\ UNCHANGED <<graphVars, walk, queryVars, stepVars, idFile, funcVars>>

-----------------------------------------------------------------------------
(* Inputs and specifications *)

RECURSIVE SeqsUpTo(_, _)
\* The sequences of at most n elements of S.
SeqsUpTo(S, n) ==
    IF n = 0 THEN {<<>>}
    ELSE LET shorter == SeqsUpTo(S, n - 1)
         IN  shorter \cup {Append(s, x) : s \in shorter, x \in S}

Tokens == {<<"p">>, <<"q">>}
CmdTrees == SeqsUpTo(Tokens, MaxDepth)
Modes == {"R", "W"}
RelF1 == Path(FALSE, <<"F1">>)
AbsF1 == Path(TRUE, <<"w", "F1">>)
Paths == {RelF1, AbsF1, DevNull}
Records == {Record(c, m, f) : c \in CmdTrees, m \in Modes, f \in Paths}
ChangedLists == SeqsUpTo(Paths, MaxChanged)

\* Spec: one run of the command line on a build report whose steps are
\* nested and whose paths are relative or absolute.  newStepSkipper builds the
\* graph and shouldRun asks it once.
Next ==
    \/ \E r \in Records : ScanRecord(r, MaxQueryRecords)
    \/ ScanMalformed(MaxQueryRecords)
    \/ ScanError
    \/ ScanEOF
    \/ \E c \in CmdTrees, cf \in ChangedLists :
          \E wds \in [1..Len(cf) -> GetwdOutcomes] : FirstQuery(c, cf, wds)

Spec == Init /\ [][Next]_vars

\* SpecBuild: NewDependencyGraph alone, on longer build reports.
NextBuild ==
    \/ \E r \in Records : ScanRecord(r, MaxRecords)
    \/ ScanMalformed(MaxRecords)
    \/ ScanError
    \/ ScanEOF

SpecBuild == Init /\ [][NextBuild]_vars

\* SpecDeps: the query on graphs of one-token steps and absolute paths, built
\* from longer build reports.
DepTokens == {<<"p">>, <<"q">>, <<"r">>}
DepTrees == {<<t>> : t \in DepTokens}
AbsF2 == Path(TRUE, <<"w", "F2">>)
AbsF3 == Path(TRUE, <<"w", "F3">>)
DepPaths == {AbsF1, AbsF2, AbsF3, DevNull}
DepRecords == {Record(c, m, f) : c \in DepTrees, m \in Modes, f \in DepPaths}
DepChangedLists == SeqsUpTo(DepPaths \ ignoreFiles, MaxDepChanged)

\* Every path of DepPaths is absolute, so absoluteNodePath never reaches os.Getwd.
NextDeps ==
    \/ \E r \in DepRecords : ScanRecord(r, MaxDepRecords)
    \/ ScanEOF
    \/ \E c \in DepTrees, cf \in DepChangedLists :
          FirstQuery(c, cf, [i \in 1..Len(cf) |-> GetwdOK])

SpecDeps == Init /\ [][NextDeps]_vars

\* SpecWalk: walkUpStepTree alone, one loop iteration per step.
WalkTokens == {<<"p">>, <<"q">>, <<"r">>}
WalkTrees == SeqsUpTo(WalkTokens, MaxWalkDepth)

InitWalk ==
    /\ phase = "scanning"
    /\ steps = <<>>
    /\ fileWriters = <<>>
    /\ buildErr = "nil"
    /\ trace = {}
    /\ nrec = 0
    /\ walk \in {[step |-> c, i |-> 0, calls |-> <<>>, done |-> FALSE] : c \in WalkTrees}
    /\ query = NoQuery
    /\ changedAfter = <<>>
    /\ res = NoResult
    /\ InitRest

\* One iteration of the loop of walkUpStepTree: f(step[0:i+1]).
WalkIter ==
    /\ ~walk.done
    /\ walk.i < Len(walk.step)
    /\ walk' = [walk EXCEPT !.i = @ + 1,
                            !.calls = Append(@, SubTree(walk.step, walk.i))]
    /\ UNCHANGED <<graphVars, queryVars, stepVars, cmdVars, funcVars>>

\* The loop of walkUpStepTree ends.
WalkReturn ==
    /\ ~walk.done
    /\ walk.i >= Len(walk.step)
    /\ walk' = [walk EXCEPT !.done = TRUE]
    /\ UNCHANGED <<graphVars, queryVars, stepVars, cmdVars, funcVars>>

NextWalk == WalkIter \/ WalkReturn

SpecWalk == InitWalk /\ [][NextWalk]_vars

\* SpecSeq: one caller making one call of StepDependsOnFiles after the other
\* on a graph of one-token steps whose paths are absolute or the sentinel.
MaxSeqRecords == 3  \* records scanned under SpecSeq
MaxSeqChanged == 1  \* entries of changedFiles under SpecSeq, SpecConc and SpecTerm

SeqTrees == {<<<<"p">>>>, <<<<"q">>>>}
SeqPaths == {AbsF1, AbsF2, DevNull}
SeqRecords == {Record(c, m, f) : c \in SeqTrees, m \in Modes, f \in SeqPaths}
SeqChangedLists == SeqsUpTo(SeqPaths, MaxSeqChanged)

InitSeq ==
    /\ InitGraph
    /\ walk = NoWalk
    /\ InitRest

NextSeq ==
    \/ \E r \in SeqRecords : ScanRecord(r, MaxSeqRecords)
    \/ ScanEOF
    \/ \E c \in SeqTrees, cf \in SeqChangedLists : Start(1, c, cf)
    \/ \E c \in SeqTrees, cf \in SeqChangedLists : StartNext(1, c, cf)
    \/ StartAgain(1)
    \/ SDFRange(1)
    \/ FDEntry(1)
    \/ FDWriters(1)
    \/ FDReads(1)

SpecSeq == InitSeq /\ [][NextSeq]_vars

\* SpecConc: two callers, each making one call of StepDependsOnFiles on the
\* same built graph, their loop iterations interleaved in every order.
MaxConcRecords == 3  \* records scanned under SpecConc

CycPaths == {AbsF1, AbsF2}
CycRecords == {Record(c, m, f) : c \in SeqTrees, m \in Modes, f \in CycPaths}
CycChangedLists == SeqsUpTo(CycPaths, MaxSeqChanged)

NextConc ==
    \/ \E r \in CycRecords : ScanRecord(r, MaxConcRecords)
    \/ ScanEOF
    \/ \E q \in Procs, c \in SeqTrees, cf \in CycChangedLists : Start(q, c, cf)
    \/ \E q \in Procs : SDFRange(q)
    \/ \E q \in Procs : FDEntry(q)
    \/ \E q \in Procs : FDWriters(q)
    \/ \E q \in Procs : FDReads(q)

SpecConc == InitSeq /\ [][NextConc]_vars

\* SpecTerm: one call of StepDependsOnFiles on build reports long enough for
\* two steps that each read a file the other writes; a call that has a step
\* to take takes it.
MaxTermRecords == 4  \* records scanned under SpecTerm

NextTerm ==
    \/ \E r \in CycRecords : ScanRecord(r, MaxTermRecords)
    \/ ScanEOF
    \/ \E c \in SeqTrees, cf \in CycChangedLists : Start(1, c, cf)
    \/ SDFRange(1)
    \/ FDEntry(1)
    \/ FDWriters(1)
    \/ FDReads(1)

SpecTerm == InitSeq /\ [][NextTerm]_vars /\ WF_vars(StepOf(1))

\* SpecRefine: the query on graphs of three steps: p reads, q writes what p
\* reads, r writes what p or q reads, from reports long enough for a diamond
\* (two files between two steps, and a file the writer reads) and for a chain
\* of three steps; the paths are absolute but for one, and two of the records
\* close a cycle.
MaxRefRecords == 5  \* records scanned under SpecRefine
MaxRefChanged == 1  \* entries of changedFiles under SpecRefine

RefTrees == {<<<<"p">>>>, <<<<"q">>>>, <<<<"r">>>>}
RefPaths == {RelF1, AbsF1, AbsF2, AbsF3}
RefRecords ==
    {Record(<<<<"p">>>>, "R", f) : f \in {RelF1, AbsF1, AbsF2}} \cup
    {Record(<<<<"q">>>>, "W", f) : f \in {AbsF1, AbsF2}} \cup
    {Record(<<<<"q">>>>, "R", f) : f \in {AbsF3, AbsF1}} \cup
    {Record(<<<<"r">>>>, "W", AbsF3), Record(<<<<"r">>>>, "R", AbsF2)} \cup
    {Record(<<<<"p">>>>, "W", AbsF3)}
RefChangedLists == SeqsUpTo(RefPaths, MaxRefChanged)

NextRefine ==
    \/ \E r \in RefRecords : ScanRecord(r, MaxRefRecords)
    \/ ScanEOF
    \/ \E c \in RefTrees, cf \in RefChangedLists :
          \E wds \in [1..Len(cf) -> GetwdOutcomes] : FirstQuery(c, cf, wds)

SpecRefine == Init /\ [][NextRefine]_vars

\* SpecCmd: one skipper process, parent or child, from the entry of Run to
\* its return or exit; the child builds the graph and asks it once.
MaxCmdRecords == 1  \* records scanned under SpecCmd

Skipper == <<"s", "k">>
UserCmds == {<<>>, <<<<"p">>>>, <<<<"p">>, <<"x">>>>}
BuildIDFlags == {<<>>, <<"B">>}
\* The ID an earlier build stored in the file.
StoredID ==
    <<"0", "1", "B", "X", "5", "Z", "Z", "K", "B", "K", "A", "C", "T",
      "A", "V", "9", "W", "E", "V", "G", "E", "M", "M", "V", "R", "Z">>
IDFiles == {NoFile} \cup
           {[exists |-> TRUE, content |-> c] :
               c \in {<<>>, <<"A">>, <<"A", "\n">>, <<"\n">>, StoredID, StoredID \o <<"\n">>}}
CmdRecords == {Record(currentStepName(u), m, f) :
                  u \in UserCmds \ {<<>>}, m \in Modes, f \in {RelF1, AbsF1}}
CmdChangedLists == {<<>>, <<RelF1>>, <<AbsF1>>}

\* os.Args of a skipper given this --id flag value and this command.
OSArgs(flag, userCmd) ==
    <<Skipper>> \o (IF flag = <<>> THEN <<>> ELSE <<IDFlag, flag>>) \o <<DashDash>> \o userCmd

InitCmd ==
    /\ InitGraph
    /\ walk = NoWalk
    /\ proc = [q \in Procs |-> NoProc]
    /\ stepChecked = [q \in Procs |-> {}]
    /\ child = NoChild
    /\ naming = NoNaming
    /\ idFile \in IDFiles
    /\ \E flag \in BuildIDFlags, userCmd \in UserCmds :
          cmd = [NoCmd EXCEPT !.pc = "start", !.osArgs = OSArgs(flag, userCmd),
                              !.buildIDFlag = flag, !.args = userCmd]

\* The loop of NewDependencyGraph inside newStepSkipper.
CmdScanRecord(r) == cmd.pc = "NewDependencyGraph" /\ ScanRecord(r, MaxCmdRecords)
CmdScanMalformed == cmd.pc = "NewDependencyGraph" /\ ScanMalformed(MaxCmdRecords)
CmdScanError == cmd.pc = "NewDependencyGraph" /\ ScanError
CmdScanEOF == cmd.pc = "NewDependencyGraph" /\ ScanEOF

\* shouldRun calls StepDependsOnFiles with the updated files, listed in the
\* order the range over the updatedNodes map gives.
CallEngine(updatedFiles, wds) ==
    /\ cmd.pc = "shouldRun"
    /\ FirstQuery(currentStepName(cmd.args), updatedFiles, wds)

NextCmd ==
    \/ RunStart
    \/ \E o \in {"ok", "error", "expand"} : ReadBuildID(o)
    \/ \E o \in {"ok", "error"} : NewBuildID(o)
    \/ \E o \in {"ok", "expand", "open", "write"} : SaveBuildID(o)
    \/ ChildArgs
    \/ StepName
    \/ \E o \in {"ok", "notexist", "error"} : OpenInputs(o)
    \/ \E r \in CmdRecords : CmdScanRecord(r)
    \/ CmdScanMalformed
    \/ CmdScanError
    \/ CmdScanEOF
    \/ GraphReturn
    \/ \E cf \in CmdChangedLists :
          \E wds \in [1..Len(cf) -> GetwdOutcomes] : CallEngine(cf, wds)
    \/ ShouldRunReturn
    \/ \E o \in {"ok", "error"} : RunCommand(o)

SpecCmd == InitCmd /\ [][NextCmd]_vars

\* SpecSpawn: a top-level invocation of skipper and the skippers it spawns.
\* The command line has no --id, or one with a value, which may be empty.
IDArgs == {<<>>, <<IDFlag, <<"B">>>>, <<IDFlag, <<>>>>}

InitSpawn ==
    /\ InitGraph
    /\ walk = NoWalk
    /\ proc = [q \in Procs |-> NoProc]
    /\ stepChecked = [q \in Procs |-> {}]
    /\ child = NoChild
    /\ naming = NoNaming
    /\ idFile \in IDFiles
    /\ \E flags \in IDArgs, userCmd \in UserCmds :
          LET a == <<Skipper>> \o flags \o <<DashDash>> \o userCmd
          IN  cmd = [NoCmd EXCEPT !.pc = "start", !.osArgs = a,
                                  !.buildIDFlag = ParseIDFlag(a), !.args = AfterDashDash(a)]

NextSpawn ==
    \/ NextCmd
    \/ ExecSkipper

SpecSpawn == InitSpawn /\ [][NextSpawn]_vars

\* SpecName: CmdTree.Name on ancestries whose tokens hold the characters JSON
\* gives a meaning to, and bytes that are not valid UTF-8 (a command line
\* argument is any byte string).
MaxNameDepth == 2  \* tokens in an ancestry under SpecName

ReplacementChar == "U+FFFD"
NameTokens ==
    {<<>>, <<"a">>, <<",">>, <<"\"">>, <<"]">>, <<"[">>, <<"\\">>, <<"\\", "\"">>,
     <<"a", "\"", ",", "\"", "a">>, <<"\\", "u", "f", "f", "f", "d">>,
     <<ReplacementChar>>, <<"xFE">>, <<"xFF">>}
NameTrees == SeqsUpTo(NameTokens, MaxNameDepth) \ {<<>>}

\* The tokens json.Unmarshal can produce: it decodes to valid UTF-8 only.
ValidUTF8(c) == \A k \in 1..Len(c) : RangeOf(c[k]) \cap InvalidUTF8 = {}

InitName ==
    /\ InitGraph
    /\ walk = NoWalk
    /\ proc = [q \in Procs |-> NoProc]
    /\ stepChecked = [q \in Procs |-> {}]
    /\ cmd = NoCmd
    /\ idFile = NoFile
    /\ child = NoChild
    /\ naming \in {[c |-> c, name |-> <<>>, done |-> FALSE] : c \in NameTrees}

\* cmdTree.Name()
NameCall ==
    /\ ~naming.done
    /\ naming' = [naming EXCEPT !.name = Name(naming.c), !.done = TRUE]
    /\ UNCHANGED <<graphVars, walk, queryVars, stepVars, cmdVars, child>>

NextName == NameCall

SpecName == InitName /\ [][NextName]_vars

\* SpecArgs: childSkipperArgs on argument lists of one element and more.
MaxArgs == 3  \* elements of args under SpecArgs

ArgStrings == {Skipper, DashDash, IDFlag, <<"p">>}
ArgLists == SeqsUpTo(ArgStrings, MaxArgs) \ {<<>>}
BuildIDs == {<<"B">>, <<"-", "-">>}

InitArgs ==
    /\ InitGraph
    /\ walk = NoWalk
    /\ proc = [q \in Procs |-> NoProc]
    /\ stepChecked = [q \in Procs |-> {}]
    /\ cmd = NoCmd
    /\ idFile = NoFile
    /\ naming = NoNaming
    /\ child \in {[id |-> id, args |-> a, cap |-> Len(a) + extra, result |-> <<>>,
                   argsAfter |-> <<>>, done |-> FALSE] :
                     id \in BuildIDs, a \in ArgLists, extra \in {0, 2}}

\* childSkipperArgs(id, args)
ChildCall ==
    /\ ~child.done
    /\ child' = [child EXCEPT !.result = childSkipperArgs(child.id, child.args),
                              !.argsAfter = callerArgsAfter(child.id, child.args, child.cap),
                              !.done = TRUE]
    /\ UNCHANGED <<graphVars, walk, queryVars, stepVars, cmdVars, naming>>

NextArgs == ChildCall

SpecArgs == InitArgs /\ [][NextArgs]_vars

TypeOK ==
    /\ phase \in {"scanning", "built", "failed"}
    /\ buildErr \in {"nil", "unmarshal", "scanner"}
    /\ nrec \in Nat
    /\ res.depends \in BOOLEAN
    /\ res.err \in {"nil", "unknown step"}
    /\ res.reason.kind \in {"none", "direct", "transitive"}

-----------------------------------------------------------------------------
(* What the trace says, independently of the graph built from it *)

NonEmptyPrefixes(c) == {SubSeq(c, 1, k) : k \in 1..Len(c)}

IsPrefixOf(p, c) == p \in NonEmptyPrefixes(c)

\* The steps the trace names: every non-empty prefix of a record's ancestry.
TraceSteps == UNION {NonEmptyPrefixes(r.CmdTree) : r \in {t \in trace : t.ok}}

\* The files read by step c or by one of its descendants.
TraceReads(c) == {r.File : r \in {t \in trace : t.ok /\ t.Mode = "R" /\ IsPrefixOf(c, t.CmdTree)}}

\* The steps that wrote f, themselves or through a descendant.
TraceWriters(f) ==
    UNION {NonEmptyPrefixes(r.CmdTree) : r \in {t \in trace : t.ok /\ t.Mode # "R" /\ t.File = f}}

RECURSIVE ClosureFrom(_, _)
\* The least set of files that contains C and the reads of every writer of a
\* file of the set that is not in skip.
ClosureFrom(C, skip) ==
    LET more == UNION {TraceReads(w) : w \in UNION {TraceWriters(f) : f \in C \ skip}}
    IN  IF more \subseteq C THEN C ELSE ClosureFrom(C \cup more, skip)

\* The transitive read closure of step c; a sentinel path is not expanded.
Closure(c) == ClosureFrom(TraceReads(c), ignoreFiles)

\* The same, walking backward through the writers of every file.
ClosureAll(c) == ClosureFrom(TraceReads(c), {})

Queried == query.called /\ query.cmdTree \in TraceSteps
ChangedBefore == RangeOf(query.changedFiles)
Changed == RangeOf(changedAfter)

-----------------------------------------------------------------------------
(* Claims *)

\* C1: completeness of the query.  For a step of the graph, if some file of
\* changedFiles is in the step's transitive read closure (sentinel paths not
\* expanded), StepDependsOnFiles returns true.
C1_Completeness ==
    (Queried /\ ChangedBefore \cap Closure(query.cmdTree) # {}) => res.depends

\* The same for the traces whose paths are all absolute and queries whose
\* changed files are absolute: there the shared visited-set and the skip of
\* the file being expanded lose no changed file.
CompletenessAbsolute ==
    (/\ Queried
     /\ \A r \in trace : IsAbs(r.File)
     /\ \A f \in ChangedBefore : IsAbs(f)
     /\ ChangedBefore \cap Closure(query.cmdTree) # {}) => res.depends

\* C2: soundness of the query.  For a step of the graph, StepDependsOnFiles
\* returns true only if a changed file is read by the step or by a step
\* reached by walking backward through the writers of the files it reads;
\* when no changed file is in that closure it returns (false, "", nil).
C2_Soundness ==
    Queried =>
        /\ res.depends => Changed \cap ClosureAll(query.cmdTree) # {}
        /\ Changed \cap ClosureAll(query.cmdTree) = {} => res = NoResult

\* A query answered true through a writer: the changed file is not read by
\* the queried step itself.
C2_Witness ==
    /\ Queried
    /\ res.depends
    /\ Changed \cap TraceReads(query.cmdTree) = {}
    /\ res.reason.kind = "transitive"

\* C3: direct dependency.  Whenever the queried step itself reads a file of
\* changedFiles, StepDependsOnFiles returns true with the direct-read reason,
\* naming the queried step and a changed file the step reads.
C3_DirectDependency ==
    (Queried /\ ChangedBefore \cap TraceReads(query.cmdTree) # {}) =>
        /\ res.depends
        /\ res.reason.kind = "direct"
        /\ res.reason.step = Name(query.cmdTree)
        /\ res.reason.file \in ChangedBefore \cap TraceReads(query.cmdTree)

\* C4: unknown step.  A query on a step whose name is not the name of a
\* non-empty prefix of any record's ancestry returns the "unknown step"
\* error, whatever changedFiles is.
C4_UnknownStep ==
    (query.called /\ \A c \in TraceSteps : Name(c) # Name(query.cmdTree)) =>
        res = UnknownStep

\* An unknown step queried with an empty changedFiles, on a graph that has steps.
C4_Witness ==
    /\ query.called
    /\ TraceSteps # {}
    /\ query.cmdTree \notin TraceSteps
    /\ query.cmdTree # <<>>
    /\ query.changedFiles = <<>>
    /\ res.err = "unknown step"

\* C5: aggregated read sets are exact.  In a graph NewDependencyGraph builds,
\* the steps are the non-empty prefixes of the records' ancestries, and f is
\* in the read set of step N exactly when the trace holds a read record for f
\* whose ancestry has N as a non-empty prefix.
C5_ReadSetsExact ==
    phase # "failed" =>
        /\ DOMAIN steps = {Name(c) : c \in TraceSteps}
        /\ \A c \in TraceSteps : steps[Name(c)] = TraceReads(c)

\* A parent step whose read set holds a file read only by a descendant, next
\* to a file of an earlier record.
C5_Witness ==
    /\ phase = "built"
    /\ \E c \in TraceSteps :
          /\ Cardinality(steps[Name(c)]) = 2
          /\ \E r \in trace : r.Mode = "R" /\ IsPrefixOf(c, r.CmdTree) /\ r.CmdTree # c

\* C6: walkUpStepTree on an ancestry of n tokens calls its callback exactly n
\* times, with the prefixes of length 1, 2, ..., n in that order; for an empty
\* ancestry it makes no call.
C6_WalkUpStepTree ==
    walk.done =>
        /\ Len(walk.calls) = Len(walk.step)
        /\ \A k \in 1..Len(walk.calls) : walk.calls[k] = [j \in 1..k |-> walk.step[j]]

\* A walk of three tokens that has returned.
C6_Witness == walk.done /\ Len(walk.step) = 3 /\ Len(walk.calls) = 3

\* C7: path normalization.  If a record names a file by a relative path and
\* changedFiles holds that path joined to the working directory, a query on a
\* step that read the record's file returns true.
C7_PathNormalization ==
    \A r \in trace :
        (/\ r.ok /\ r.Mode = "R" /\ ~IsAbs(r.File)
         /\ query.called
         /\ IsPrefixOf(query.cmdTree, r.CmdTree)
         /\ Join(Cwd, r.File) \in ChangedBefore) => res.depends

\* C8: sentinel records are skipped at construction.  No step's read set
\* holds a sentinel path and the writer index has no entry for one.
C8_SentinelSkipped ==
    phase = "built" =>
        /\ \A n \in DOMAIN steps : steps[n] \cap ignoreFiles = {}
        /\ DOMAIN fileWriters \cap ignoreFiles = {}

\* C9: a sentinel path never links a writer to a reader.  A query answers
\* true only if a changed file is in the closure in which a sentinel path is
\* not expanded: the reads of a step that wrote /dev/null do not reach the
\* steps that read /dev/null.
C9_SentinelNoLink ==
    (Queried /\ res.depends) => Changed \cap Closure(query.cmdTree) # {}

\* B reads /dev/null, A wrote /dev/null and reads the changed file X: the
\* query on B answers false.
C9_Witness ==
    /\ Queried
    /\ ~res.depends
    /\ DevNull \in TraceReads(query.cmdTree)
    /\ \E a \in TraceWriters(DevNull) : Changed \cap TraceReads(a) # {}

C10_WitnessEmpty == phase = "built" /\ trace = {} /\ steps = <<>>

\* C11: determinism.  Repeating StepDependsOnFiles on the same built graph
\* with the same step and the same changedFiles returns the same boolean, the
\* same reason and the same error as the call before.
C11_Determinism ==
    [][\A q \in Procs :
          (proc'[q].pc = "done" /\ proc'[q].calls >= 2) => proc'[q].out = proc[q].out]_vars

\* The boolean and the error of a repeated call are those of the call before.
RepeatSameAnswer ==
    [][\A q \in Procs :
          (proc'[q].pc = "done" /\ proc'[q].calls >= 2) =>
              /\ proc'[q].out.depends = proc[q].out.depends
              /\ proc'[q].out.err = proc[q].out.err]_vars

\* What caller q's call returns when it is the first call on the graph.
FirstAnswers(q) ==
    StepDependsOnFiles(Graph, proc[q].cmdTree, proc[q].changedFiles,
                       AllGetwdOK(proc[q].changedFiles))

\* C12: the graph is read-only after construction and queries do not
\* influence each other.  No step after construction changes the step map, a
\* read set or the writer index, and after any sequence of calls a call
\* returns a result the first call on the freshly built graph can return,
\* with the boolean and the error every such first call returns.
C12_ReadOnlyIndependent ==
    /\ [][phase = "built" => (steps' = steps /\ fileWriters' = fileWriters)]_vars
    /\ [](\A q \in Procs :
             proc[q].pc = "done" =>
                 /\ proc[q].out \in FirstAnswers(q)
                 /\ \A r \in FirstAnswers(q) :
                       r.depends = proc[q].out.depends /\ r.err = proc[q].out.err)

\* A repeated call that answered true through a writer it expanded again.
C12_Witness ==
    /\ proc[1].pc = "done"
    /\ proc[1].calls = 2
    /\ proc[1].out.depends
    /\ proc[1].out.reason.kind = "transitive"
    /\ stepChecked[1] # {}

ReadsFrom(a, b) == \E f \in TraceReads(a) : b \in TraceWriters(f)

\* C18: cycle tolerance.  On every graph, those with step -> file -> step
\* cycles and with steps that read and write the same file included, a call
\* of StepDependsOnFiles that has started returns.
C18_Terminates == (proc[1].pc = "run") ~> (proc[1].pc = "done")

\* A call that has returned after expanding both steps of a graph in which
\* each of the two reads a file the other wrote.
C18_Witness ==
    /\ proc[1].pc = "done"
    /\ \E a, b \in TraceSteps :
          /\ a # b
          /\ ReadsFrom(a, b) /\ ReadsFrom(b, a)
          /\ {Name(a), Name(b)} \subseteq stepChecked[1]

\* A call that has returned after expanding a step that reads and writes the
\* same file.
C18_WitnessSelf ==
    /\ proc[1].pc = "done"
    /\ \E a \in TraceSteps :
          /\ \E f \in TraceReads(a) : a \in TraceWriters(f)
          /\ Name(a) \in stepChecked[1]

\* C14: the decision facade.  shouldRun returns (true, err) whenever the
\* engine returns an error, (true, nil) whenever the engine reports a
\* dependency, (false, nil) only when the engine reports neither; never
\* false together with an error.
C14_DecisionFacade ==
    cmd.shouldRun.called =>
        /\ res.err # "nil" => (cmd.shouldRun.run /\ cmd.shouldRun.err = res.err)
        /\ (res.err = "nil" /\ res.depends) =>
              (cmd.shouldRun.run /\ cmd.shouldRun.err = "nil")
        /\ ~cmd.shouldRun.run =>
              (res.err = "nil" /\ ~res.depends /\ cmd.shouldRun.err = "nil")

\* shouldRun returned (true, err) for a step the graph does not know, on a
\* graph that has a step.
C14_Witness ==
    /\ cmd.shouldRun.called
    /\ res.err = "unknown step"
    /\ cmd.shouldRun.run
    /\ cmd.shouldRun.err = "unknown step"
    /\ TraceSteps # {}

\* shouldRun returned (false, nil).
C14_WitnessSkip == cmd.shouldRun.called /\ ~cmd.shouldRun.run /\ res = NoResult

\* Run is over: it returned or the process exited.
Over == cmd.pc \in {"returned", "exited"}

\* The invocation carries a build ID, the inputs were loaded, the graph was
\* built, the step is known and the query reported no dependency.
MaySkip ==
    /\ cmd.buildIDFlag # <<>>
    /\ cmd.load = "ok"
    /\ phase = "built"
    /\ query.called
    /\ res = NoResult

\* C15: fail-open command line.  In an invocation with a non-empty command,
\* the command is executed exactly once unless the invocation carries a build
\* ID, the inputs were loaded and the graph built without error, the step is
\* known and the query reported no dependency; it is never executed twice.
C15_FailOpen ==
    (Over /\ cmd.osArgs[Len(cmd.osArgs)] # DashDash) =>
        /\ Len(cmd.ran) <= 1
        /\ Len(cmd.ran) = 0 => MaySkip

\* Run returned normally.
FailOpenOnReturn ==
    (cmd.pc = "returned" /\ cmd.osArgs[Len(cmd.osArgs)] # DashDash) =>
        /\ Len(cmd.ran) <= 1
        /\ Len(cmd.ran) = 0 => MaySkip

\* C16: no error is swallowed by the core.  A failure met during
\* NewDependencyGraph makes it return an error, and a failure met during
\* StepDependsOnFiles (os.Getwd failing in the normalization of a relative
\* changed file, which leaves the path relative) makes it return an error.
C16_NoErrorSwallowed ==
    /\ (BadRecord \in trace \/ phase = "failed") => buildErr # "nil"
    /\ (query.called /\ \E i \in 1..Len(changedAfter) : ~IsAbs(changedAfter[i])) =>
          res.err # "nil"

\* C17: step names are injective.  Two distinct non-empty ancestries have
\* different names.
C17_NameInjective ==
    naming.done => \A d \in NameTrees : d # naming.c => Name(d) # naming.name

\* The same for the ancestries whose tokens are valid UTF-8.
NameInjectiveUTF8 ==
    (naming.done /\ ValidUTF8(naming.c)) =>
        \A d \in NameTrees : (d # naming.c /\ ValidUTF8(d)) => Name(d) # naming.name

\* C19: childSkipperArgs(id, args), for args of at least one element, returns
\* args[0], "--id", id, then args[1:] in their order: len(args)+2 elements.
C19_ChildSkipperArgs ==
    child.done =>
        /\ Len(child.result) = Len(child.args) + 2
        /\ child.result[1] = child.args[1]
        /\ child.result[2] = IDFlag
        /\ child.result[3] = child.id
        /\ \A k \in 2..Len(child.args) : child.result[k + 2] = child.args[k]

\* The test's case: a program name followed by two arguments.
C19_Witness ==
    /\ child.done
    /\ Len(child.args) = 3
    /\ child.args[2] = DashDash
    /\ Len(child.result) = 5

\* A call on a slice with spare capacity: the caller's slice now holds the
\* flag where its first argument was.
C19_WitnessInPlace ==
    /\ child.done
    /\ Len(child.args) >= 2
    /\ child.argsAfter # child.args

\* The process is a parent skipper that has spawned its child.
Spawned == cmd.buildIDFlag = <<>> /\ cmd.ran # <<>>

\* C20: build ID lifecycle.  The child a parent skipper spawns is given --id
\* equal to the content of the build-ID file at that moment, and no step
\* changes a build-ID file that holds an ID.
C20_BuildIDLifecycle ==
    /\ [](Spawned =>
             /\ idFile.exists
             /\ cmd.ran[1] = <<cmd.osArgs[1], IDFlag, idFile.content>> \o Tail(cmd.osArgs))
    /\ [][TrimSpace(idFile.content) # <<>> => idFile' = idFile]_vars

\* The child is given the ID the file holds, the white space around it trimmed.
SpawnedWithTrimmedID ==
    Spawned =>
        /\ idFile.exists
        /\ cmd.ran[1] = <<cmd.osArgs[1], IDFlag, TrimSpace(idFile.content)>> \o Tail(cmd.osArgs)

\* The alphabet of a ULID's text form.
Crockford ==
    {"0", "1", "2", "3", "4", "5", "6", "7", "8", "9", "A", "B", "C", "D", "E", "F", "G",
     "H", "J", "K", "M", "N", "P", "Q", "R", "S", "T", "V", "W", "X", "Y", "Z"}

\* s is the text form of a ULID: 26 characters of the alphabet, the first at most 7.
IsULID(s) ==
    /\ Len(s) = 26
    /\ RangeOf(s) \subseteq Crockford
    /\ s[1] \in {"0", "1", "2", "3", "4", "5", "6", "7"}

\* buildULIDFromFile returned an error: Run printed it and exited.
ReadReturnedError == cmd.pc = "buildULIDFromFile" /\ cmd'.pc = "exited"

\* buildULIDFromFile returned ("", nil).
ReadReturnedEmpty == cmd.pc = "buildULIDFromFile" /\ cmd'.pc = "newBuildULID"

\* C21: buildULIDFromFile returns an error whenever the build-ID file exists
\* with non-empty content that is not a ULID, and it returns the empty ID with
\* a nil error only when the file does not exist or is empty.
C21_BuildIDValidated ==
    /\ [][(/\ cmd.pc = "buildULIDFromFile" /\ cmd'.pc # cmd.pc
           /\ idFile.exists /\ idFile.content # <<>> /\ ~IsULID(idFile.content))
              => ReadReturnedError]_vars
    /\ [][ReadReturnedEmpty => (~idFile.exists \/ idFile.content = <<>>)]_vars

\* What the function does return without an error: the empty ID for a file
\* that is missing, unreadable or holds white space only, the trimmed content
\* otherwise, ULID or not.
ReadReturnsTrimmed ==
    [][(cmd.pc = "buildULIDFromFile" /\ cmd'.pc \notin {cmd.pc, "exited"}) =>
          /\ cmd'.id \in {<<>>, TrimSpace(idFile.content)}
          /\ cmd'.pc = "childSkipperArgs" =>
                (idFile.exists /\ cmd'.id = TrimSpace(idFile.content) /\ cmd'.id # <<>>)]_vars

RECURSIVE SumOver(_, _)
\* The sum of f over the set S.
SumOver(f, S) ==
    IF S = {} THEN 0
    ELSE LET x == CHOOSE y \in S : TRUE IN f[x] + SumOver(f, S \ {x})

\* The expansions caller q's call has made so far.
Expansions(q) == SumOver(proc[q].expanded, DOMAIN proc[q].expanded)

\* C22: within one call of StepDependsOnFiles, fileDeps ranges over the read
\* set of any given writer step at most once, over all direct reads of the
\* queried step and all depths of the recursion; the expansions of a call
\* are at most as many as the graph has steps.
C22_ExpandedOnce ==
    \A q \in Procs :
        /\ \A s \in DOMAIN proc[q].expanded : proc[q].expanded[s] <= 1
        /\ Expansions(q) <= Cardinality(DOMAIN steps)

\* A diamond: the queried step reads two files that one other step wrote;
\* the call went through both files, found no changed file and expanded the
\* writer once.
C22_Witness ==
    /\ proc[1].pc = "done"
    /\ proc[1].out = NoResult
    /\ \E w \in TraceSteps :
          /\ w # proc[1].cmdTree
          /\ Cardinality({f \in TraceReads(proc[1].cmdTree) : w \in TraceWriters(f)}) = 2
          /\ proc[1].expanded[Name(w)] = 1

\* What the last call can return on its graph, one result per order in which
\* the read sets can be ranged.
QueryAnswers ==
    StepDependsOnFiles(Graph, query.cmdTree, query.changedFiles,
                       AllGetwdOK(query.changedFiles))

\* C23: the boolean of a query does not depend on traversal order.  For a
\* fixed graph, step and changedFiles, every order of iteration gives the
\* same boolean and the same error, and the same reason but for the file it
\* names.
C23_OrderIndependent ==
    query.called =>
        \A r1, r2 \in QueryAnswers :
            /\ r1.depends = r2.depends
            /\ r1.err = r2.err
            /\ r1.reason.kind = r2.reason.kind
            /\ r1.reason.step = r2.reason.step

\* The boolean, the error and the step named in the reason are those of
\* every order.
BooleanOrderIndependent ==
    query.called =>
        \A r \in QueryAnswers :
            /\ r.depends = res.depends
            /\ r.err = res.err
            /\ r.reason.step = res.reason.step

RECURSIVE Perms(_)
\* The orders in which the records of the set S can be written in a report.
Perms(S) ==
    IF S = {} THEN {<<>>}
    ELSE UNION {{<<x>> \o rest : rest \in Perms(S \ {x})} : x \in S}

\* The records scanned are all different: the report is an order of trace.
NoRepeatedRecord == nrec = Cardinality(trace)

\* C24: record order does not change the built graph's contents.  For every
\* order of the same records NewDependencyGraph yields the same steps with
\* the same read sets and the same writers of each file, and every query
\* returns the same boolean and error (looked at whenever no call is running).
C24_RecordOrder ==
    (phase = "built" /\ NoRepeatedRecord /\ \A q \in Procs : proc[q].pc # "run") =>
        \A order \in Perms(trace) :
            LET g == ScanAll(EmptyGraph, order)
            IN  /\ g.steps = steps
                /\ \A f \in DOMAIN fileWriters :
                       /\ f \in DOMAIN g.fileWriters
                       /\ RangeOf(g.fileWriters[f]) = RangeOf(fileWriters[f])
                /\ \A q \in Procs :
                       proc[q].pc = "done" =>
                           \A r \in StepDependsOnFiles(g, proc[q].cmdTree, proc[q].changedFiles,
                                                       AllGetwdOK(proc[q].changedFiles)) :
                               r.depends = proc[q].out.depends /\ r.err = proc[q].out.err

\* A step that wrote a file and has one read, so that some order of the
\* report registers it as a writer before its read is recorded; a query on
\* another step, which reads the written file, answered true through it.
C24_Witness ==
    /\ phase = "built" /\ NoRepeatedRecord
    /\ proc[1].pc = "done"
    /\ proc[1].out.depends
    /\ proc[1].out.reason.kind = "transitive"
    /\ proc[1].out.reason.file \notin ignoreFiles
    /\ \E w \in TraceSteps, f \in TraceReads(proc[1].cmdTree) :
          /\ w # proc[1].cmdTree
          /\ TraceWriters(f) = {w}
          /\ TraceReads(w) = {proc[1].out.reason.file}
          /\ TraceReads(proc[1].cmdTree) = {f}

\* Step s reads a file it also wrote.
ReadsOwnWrite(s) == \E f \in TraceReads(s) : s \in TraceWriters(f)

\* The queried step reads a file that some step both reads and writes.
ReadsSelfWritten(c) ==
    \E f \in TraceReads(c) : \E s \in TraceWriters(f) : f \in TraceReads(s)

\* C25: no self-match.  A query on a step that reads a file F which some
\* step S (the queried step included) both reads and writes returns
\* (false, "", nil) when no changed file is in the read closure, and fileDeps
\* expanding F never recurses into F itself: S's own read of F is skipped.
C25_NoSelfMatch ==
    \A q \in Procs :
        /\ (/\ proc[q].pc = "done"
            /\ proc[q].cmdTree \in TraceSteps
            /\ ReadsSelfWritten(proc[q].cmdTree)
            /\ ChangedOf(q) \cap ClosureAll(proc[q].cmdTree) = {}) => proc[q].out = NoResult
        /\ \A i \in 1..(Len(proc[q].stack) - 1) :
               proc[q].stack[i].fn = "fileDeps" =>
                   proc[q].stack[i + 1].filePath # proc[q].stack[i].filePath

\* A query on a step that reads and writes one file, with a changed file the
\* step does not depend on: the step was expanded as the writer of its own
\* read and the call answered false.
C25_Witness ==
    /\ proc[1].pc = "done"
    /\ proc[1].out = NoResult
    /\ proc[1].changedFiles # <<>>
    /\ ReadsOwnWrite(proc[1].cmdTree)
    /\ proc[1].expanded[Name(proc[1].cmdTree)] = 1

\* Step a of graph g reads a file that step b of g wrote.
GraphReadsFrom(g, a, b) == \E f \in g.steps[a] : b \in RangeOf(Writers(g.fileWriters, f))

RECURSIVE ReachFrom(_, _)
\* The steps reached from the steps of S by following GraphReadsFrom.
ReachFrom(g, S) ==
    LET more == {b \in DOMAIN g.steps : \E a \in S : GraphReadsFrom(g, a, b)}
    IN  IF more \subseteq S THEN S ELSE ReachFrom(g, S \cup more)

\* No step reaches itself, in one hop (it reads a file it writes) or in more.
Acyclic(g) ==
    \A a \in DOMAIN g.steps :
        a \notin ReachFrom(g, {b \in DOMAIN g.steps : GraphReadsFrom(g, a, b)})

NoSentinel(g) ==
    /\ DOMAIN g.fileWriters \cap ignoreFiles = {}
    /\ \A a \in DOMAIN g.steps : g.steps[a] \cap ignoreFiles = {}

\* The unmemoized search answers true for file f in some order, in every order.
UnmemoizedSomeTrue(f) ==
    \E r \in StepDependsOnFile(Graph, Name(query.cmdTree), f) : r.depends
UnmemoizedAllTrue(f) ==
    \A r \in StepDependsOnFile(Graph, Name(query.cmdTree), f) : r.depends

\* C26, as stated: on every acyclic graph without sentinel paths,
\* StepDependsOnFiles(step, changedFiles) returns true exactly when the
\* unmemoized StepDependsOnFile(step, f) returns true for some f of
\* changedFiles as the caller passed it.
C26_RefinesUnmemoized ==
    (query.called /\ Acyclic(Graph) /\ NoSentinel(Graph)) =>
        /\ res.depends => \E f \in ChangedBefore : UnmemoizedAllTrue(f)
        /\ ~res.depends => \A f \in ChangedBefore : ~UnmemoizedSomeTrue(f)

\* C26, amended: the same with f taken from changedFiles as StepDependsOnFiles
\* normalized it (every entry passed through absoluteNodePath).
C26_RefinesUnmemoizedNormalized ==
    (query.called /\ Acyclic(Graph) /\ NoSentinel(Graph)) =>
        /\ res.depends => \E f \in Changed : UnmemoizedAllTrue(f)
        /\ ~res.depends => \A f \in Changed : ~UnmemoizedSomeTrue(f)

\* A diamond: the queried step reads two files, both written by one other
\* step, which reads the changed file; the query answered true.
C26_Witness ==
    /\ query.called /\ Acyclic(Graph) /\ NoSentinel(Graph)
    /\ res.depends
    /\ res.reason.kind = "transitive"
    /\ \E w \in TraceSteps :
          /\ Cardinality({f \in TraceReads(query.cmdTree) : w \in TraceWriters(f)}) = 2
          /\ res.reason.file \in TraceReads(w)

\* A changed file given by a relative path that the queried step reads under
\* its absolute form: the query answers true, the unmemoized search, which
\* compares the path as given, does not.
RelativeChangedFile ==
    /\ query.called /\ Acyclic(Graph)
    /\ res.depends
    /\ \E f \in ChangedBefore : ~IsAbs(f)
    /\ \A f \in ChangedBefore : ~UnmemoizedSomeTrue(f)

\* The absolute form of a path: itself, or the path joined to the working
\* directory.
AbsoluteForm(f) == IF IsAbs(f) THEN f ELSE Join(Cwd, f)

\* What another pass of the normalization loop can make of the slice.
NormalizedAgain ==
    {NormalizeAll(changedAfter, wds) : wds \in [1..Len(changedAfter) -> GetwdOutcomes]}

\* C27: effect on the caller's input.  After a call of StepDependsOnFiles,
\* the unknown-step failure included, every entry of the caller's
\* changedFiles slice holds the absolute form of what it held, and
\* normalizing the slice again changes nothing.
C27_CallerSliceNormalized ==
    query.called =>
        /\ Len(changedAfter) = Len(query.changedFiles)
        /\ \A i \in 1..Len(changedAfter) :
               /\ changedAfter[i] = AbsoluteForm(query.changedFiles[i])
               /\ IsAbs(changedAfter[i])
        /\ NormalizedAgain = {changedAfter}

\* What holds whatever os.Getwd does: an entry holds its absolute form or is
\* left as it was, also when the step is unknown; and a slice whose entries
\* are all absolute is not changed by another pass.
SliceNormalizedOrLeft ==
    query.called =>
        /\ Len(changedAfter) = Len(query.changedFiles)
        /\ \A i \in 1..Len(changedAfter) :
               changedAfter[i] \in {AbsoluteForm(query.changedFiles[i]), query.changedFiles[i]}
        /\ (\A i \in 1..Len(changedAfter) : IsAbs(changedAfter[i])) =>
               NormalizedAgain = {changedAfter}

\* A call that failed with the unknown-step error and rewrote the slice.
SliceRewrittenOnUnknownStep ==
    /\ query.called
    /\ res.err = "unknown step"
    /\ changedAfter # query.changedFiles

\* C28: self-spawning is bounded.  The build ID a parent skipper passes to
\* its child is never empty, so the child does not take the parent branch:
\* below one top-level invocation there is at most one nested skipper, and it
\* is the one that runs or skips the command.
C28_SpawnBounded ==
    /\ (cmd.buildIDFlag = <<>> /\ cmd.pc = "run") =>
           (cmd.id # <<>> /\ ParseIDFlag(cmd.args) # <<>>)
    /\ cmd.depth <= 1
    /\ cmd.depth = 1 => cmd.buildIDFlag # <<>>

\* The ID in the command line a parent gives its child is never empty.
SpawnedIDNotEmpty ==
    (cmd.buildIDFlag = <<>> /\ cmd.pc = "run") =>
        /\ cmd.id # <<>>
        /\ cmd.args = <<cmd.osArgs[1], IDFlag, cmd.id>> \o Tail(cmd.osArgs)

\* The command line a holds no --id with an empty value.
NoEmptyIDArg(a) == \A i \in 1..(Len(a) - 1) : ~(a[i] = IDFlag /\ a[i + 1] = <<>>)

\* Without an empty --id in the top-level command line (a child's command
\* line holds every argument of its parent's) the child is not a parent.
SpawnBoundedWithoutEmptyFlag ==
    NoEmptyIDArg(cmd.osArgs) =>
        /\ (cmd.buildIDFlag = <<>> /\ cmd.pc = "run") => ParseIDFlag(cmd.args) # <<>>
        /\ cmd.depth <= 1
        /\ cmd.depth = 1 => cmd.buildIDFlag # <<>>

\* A child skipper, spawned with --id, that decided to skip its command.
ChildSkipped ==
    /\ cmd.depth = 1
    /\ cmd.buildIDFlag # <<>>
    /\ cmd.pc = "returned"
    /\ cmd.shouldRun.called /\ ~cmd.shouldRun.run

====
